---- MODULE Spec2Model ----
(***************************************************************************)
(* Model of the gallery decode cascade (src/src/image_entry.rs) and of the *)
(* video playback session (src/src/video_entry.rs).                        *)
(*                                                                         *)
(* The external decoders (image crate, dicom, jbig2dec, rawloader, ffmpeg) *)
(* are oracles: each call's outcome is drawn from a small set by the       *)
(* action that makes the call.  What the repository's code does with the   *)
(* outcome is translated from the source.                                  *)
(***************************************************************************)
EXTENDS Integers, Sequences, FiniteSets, TLC

VARIABLES
    file,       \* the file on disk handed to the decode entry points
    result,     \* what the last decode entry point returned
    trace,      \* the stages the last decode entry point ran, in order
    sniffed,    \* what the format sniffer returned in that call
    op,         \* the last decode entry point called
    \* the video session (struct VideoEntry)
    is_playing,
    current_time,       \* ms
    video_duration,     \* ms
    frames_buffer,      \* FramesBuffer.frames: the pictures waiting, oldest first
    cached_frame,       \* the texture presented last; NoFrame for None
    since_last_frame,   \* ms of wall clock between last_frame_time and the latest
                        \* Instant::now() the session took, counted up to MaxElapsed
    video_pos,          \* read cursor of video_input_ctx: index of the next packet
    draining,           \* the video decoder has been sent end-of-stream
    audio_paused,       \* audio_sink is paused
    panicked,           \* an unwrap() of the session has aborted the program
    buffer_peak,        \* the most frames the buffer held at once during the last call
    last,               \* the last call made on the session
    session,            \* what VideoEntry::new returned: "open" for Some, "failed"
                        \* for None, "none" before the call
    \* a thumbnail batch (load_files)
    batch_files,        \* the files handed to load_files
    app_settings,       \* the Settings handed to load_files
    tasks,              \* per file, where its task stands and the texture it got
    entries,            \* the shared Arc<Mutex<Vec<GalleryEntry>>>
    entries_lock,       \* the task holding the mutex of entries; 0 when it is free
    newest,             \* index in batch_files of the first file of the newest selection
    dialog,             \* the file dialog of handle_selector_button_click
    \* the layout functions of utils.rs
    call,               \* the function called and its arguments
    ret,                \* what it returned
    \* an image preview (ImageEntry)
    image,              \* ImageEntry.image: the Still or Animated that was loaded
    current_frame_index,
    last_frame_age,     \* ms between ImageEntry.last_frame_time and the latest
                        \* Instant::now() the entry took, counted up to MaxAge
    image_call,         \* the last call made on the entry and how it ended
    \* the preview of the App (layout.rs)
    current_entry,      \* App.current_entry
    audio_owners,       \* the video sessions alive, each holding an audio output
    sessions_opened     \* how many video sessions VideoEntry::new has returned

decodeVars == <<file, result, trace, sniffed, op>>

videoVars == <<is_playing, current_time, video_duration, frames_buffer, cached_frame,
               since_last_frame, video_pos, draining, audio_paused, panicked,
               buffer_peak, last>>

batchVars == <<batch_files, app_settings, tasks, entries, entries_lock, newest, dialog>>

utilsVars == <<call, ret>>

imageVars == <<image, current_frame_index, last_frame_age, image_call>>

previewVars == <<current_entry, audio_owners, sessions_opened>>

appVars == <<session, batchVars, utilsVars, imageVars, previewVars>>

vars == <<decodeVars, videoVars, appVars>>

-----------------------------------------------------------------------------
(* Bounds of the model *)

MaxFrames == 3          \* frames an animated container / DICOM object yields
MaxImages == 2          \* images a bilevel document yields
MaxPackets == 2         \* packets of the video stream of a thumbnailed file
MaxFramesPerPacket == 2 \* pictures the decoder releases for one packet
MaxPts == 2             \* largest presentation timestamp (stream ticks)
TimeBaseNum == 1        \* the stream time base is TimeBaseNum/TimeBaseDen seconds
TimeBaseDen == 500
ShortLen == 132         \* length of a file too short for the sniffer window
NumPackets == 6         \* packets of the video stream of an opened video
TicksPerPacket == 1000  \* pts distance between two packets (stream ticks)
KeyframeEvery == 3      \* every KeyframeEvery-th packet is a keyframe
MaxElapsed == 2000      \* elapsed times are counted up to this many ms

(* Program constants *)

HeaderLen == 256
DefaultDelayNum == 8333
DefaultDelayDen == 100
FfmpegLastDelay == 83
BufferSize == 5         \* FramesBuffer.size
FrameRateNum == 1       \* avg_frame_rate of the opened video: 1/2 frame per second
FrameRateDen == 2
WrapModulus == 1073741824
    \* stands for 2^64 in `as u64`: a value TLC's integers can hold and that
    \* exceeds every time of the model by far more than any seek distance

DicomMagic == <<68, 73, 67, 77>>          \* "DICM"
RpgmvMagic == <<82, 80, 71, 77, 86>>      \* 52 50 47 4D 56
JpegLsMagic == <<255, 216, 255, 247>>     \* FF D8 FF F7

-----------------------------------------------------------------------------
(* Files *)

NoExt == "none"
Extensions == {"png", "mp4", NoExt}

\* extension allow-list membership (utils.rs is_image), on the sampled extensions
is_image(f) == f.ext \in {"png"}

\* utils.rs is_video, on the sampled extensions
is_video(f) == f.ext \in {"mp4"}

\* utils.rs is_no_extension
is_no_extension(f) == f.ext = NoExt

\* the test of filter_media_files on one file
is_media_file(f) == is_image(f) \/ is_video(f) \/ is_no_extension(f)

\* utils.rs filter_media_files
filter_media_files(files) == SelectSeq(files, is_media_file)

\* the media_type load_files gives the entry of a file
media_type(f) == IF is_image(f) THEN "ImageStill" ELSE "Video"

\* 5-byte prefixes mixing the bytes of the two offset-0 signatures
Prefixes ==
    { <<a, b, c, d, e>> : a \in {RpgmvMagic[1], JpegLsMagic[1]},
                          b \in {RpgmvMagic[2], JpegLsMagic[2]},
                          c \in {RpgmvMagic[3], JpegLsMagic[3]},
                          d \in {RpgmvMagic[4], JpegLsMagic[4]},
                          e \in {RpgmvMagic[5], 0} }

\* 4-byte words for offsets 128..131: each byte right or zero
Words128 ==
    { <<a, b, c, d>> : a \in {DicomMagic[1], 0}, b \in {DicomMagic[2], 0},
                       c \in {DicomMagic[3], 0}, d \in {DicomMagic[4], 0} }

\* file content of length n with prefix p at offset 0 and word w at offset 128;
\* the sniffer looks at no other byte
Content(n, p, w) == [len |-> n, head |-> p, at128 |-> w]

Files ==
    { [readable |-> TRUE, ext |-> x, bytes |-> Content(n, p, w)] :
        x \in Extensions, n \in {ShortLen, HeaderLen},
        p \in Prefixes, w \in Words128 }
    \cup
    { [readable |-> FALSE, ext |-> x, bytes |-> Content(HeaderLen, RpgmvMagic, DicomMagic)] :
        x \in Extensions }

-----------------------------------------------------------------------------
(* Decode results *)

Still == [kind |-> "Still", frames |-> <<>>, err |-> "none"]
Animated(fs) == [kind |-> "Animated", frames |-> fs, err |-> "none"]
Err(e) == [kind |-> "Err", frames |-> <<>>, err |-> e]
Panic == [kind |-> "Panic", frames |-> <<>>, err |-> "none"]
NoImage == [kind |-> "None", frames |-> <<>>, err |-> "none"]
NotRun == [kind |-> "NotRun", frames |-> <<>>, err |-> "none"]

IsOk(r) == r.kind \in {"Still", "Animated"}

Stage(s, r) == [stage |-> s, ok |-> IsOk(r)]

\* Delay::from_numer_denom_ms
Delay(n, d) == <<n, d>>

\* RawImageFrame::from_image: the frame of a still picture gets the default delay
from_image == Delay(DefaultDelayNum, DefaultDelayDen)

\* RawImageFrame::from_frame: the frame keeps the delay the container encodes
from_frame(encoded) == encoded

-----------------------------------------------------------------------------
(* Oracles: what the external decoders can answer *)

SeqsUpTo(S, n) == UNION { [1..k -> S] : k \in 0..n }

EncodedDelays == { Delay(0, 1), Delay(100, 1) }

\* native decoder: failure, or success with the animation frames it collected
\* (none for a format that is not GIF / WebP / APNG)
NativeOutcomes ==
    { [ok |-> FALSE, delays |-> <<>>] }
    \cup { [ok |-> TRUE, delays |-> ds] : ds \in SeqsUpTo(EncodedDelays, MaxFrames) }

\* a container decoder: failure, or success with n frames / images
CountOutcomes(max) ==
    { [ok |-> FALSE, n |-> 0] } \cup { [ok |-> TRUE, n |-> k] : k \in 0..max }

\* ffmpeg: failure of any `?` step, or the pictures released after each packet
FfmpegOutcomes ==
    { [ok |-> FALSE, packets |-> <<>>] }
    \cup { [ok |-> TRUE, packets |-> ps] :
            ps \in SeqsUpTo(SeqsUpTo(0..MaxPts, MaxFramesPerPacket), MaxPackets) }

\* a decoder cannot succeed on a file that cannot be opened
Answers(f, S) == IF f.readable THEN S ELSE { o \in S : ~o.ok }
OkAnswers(f) == IF f.readable THEN BOOLEAN ELSE {FALSE}

-----------------------------------------------------------------------------
(* The decoders of image_entry.rs *)

\* ImageEntry::try_guess_format
try_guess_format(f) ==
    IF ~f.readable THEN [ok |-> FALSE, fmt |-> "IoError"]
    ELSE IF f.bytes.len < HeaderLen THEN [ok |-> FALSE, fmt |-> "IoError"]
    ELSE LET buffer == [f.bytes EXCEPT !.len = HeaderLen] IN
        IF buffer.len >= 132 /\ buffer.at128 = DicomMagic
            THEN [ok |-> TRUE, fmt |-> "Dicom"]
        ELSE IF buffer.len >= 5 /\ buffer.head = RpgmvMagic
            THEN [ok |-> TRUE, fmt |-> "Rpgmv"]
        ELSE IF buffer.len >= 4 /\ SubSeq(buffer.head, 1, 4) = JpegLsMagic
            THEN [ok |-> TRUE, fmt |-> "JpegLs"]
        ELSE [ok |-> TRUE, fmt |-> "JBig2"]

\* ImageEntry::load_image_native
load_image_native(nat) ==
    IF ~nat.ok THEN Err("decode")
    ELSE LET collected == [i \in 1..Len(nat.delays) |-> from_frame(nat.delays[i])]
             frames == IF collected = <<>> THEN <<from_image>> ELSE collected
         IN IF Len(frames) = 1 THEN Still ELSE Animated(frames)

\* ImageEntry::load_dicom_image
load_dicom_image(d) ==
    IF ~d.ok THEN Err("decode")
    ELSE LET frames == [i \in 1..d.n |-> from_image]
         IN IF Len(frames) = 1 THEN Still ELSE Animated(frames)

\* ImageEntry::load_jbig_image: images.pop().unwrap()
load_jbig_image(j) ==
    IF ~j.ok THEN Err("decode")
    ELSE IF j.n = 0 THEN Panic ELSE Still

\* ImageEntry::load_rpgmv_image / load_jpeg_ls_image / load_raw_image /
\* load_thumbnail_native: a Still or the decoder's error
load_single(ok) == IF ok THEN Still ELSE Err("decode")

\* (delay * 1000.0) as u32: truncating, saturating at 0
PtsDeltaToMs(dp) ==
    IF dp <= 0 THEN 0 ELSE (dp * TimeBaseNum * 1000) \div TimeBaseDen

\* the packet loop of load_image_ffmpeg: the pts of the buffers it collects.
\* q holds the pictures the decoder has not handed out yet.
RECURSIVE FfmpegCollect(_, _, _, _)
FfmpegCollect(packets, q, pts_values, is_thumbnail) ==
    IF packets = <<>> THEN pts_values
    ELSE LET avail == q \o Head(packets) IN
        IF is_thumbnail
        THEN IF avail = <<>>
             THEN FfmpegCollect(Tail(packets), avail, pts_values, is_thumbnail)
             ELSE FfmpegCollect(Tail(packets), Tail(avail),
                                Append(pts_values, Head(avail)), is_thumbnail)
        ELSE FfmpegCollect(Tail(packets), <<>>, pts_values \o avail, is_thumbnail)

\* the delays vector of load_image_ffmpeg, for two or more pts values
FfmpegDelays(pts_values) ==
    LET n == Len(pts_values)
        diffs == [i \in 1..(n - 1) |-> Delay(PtsDeltaToMs(pts_values[i + 1] - pts_values[i]), 1)]
    IN Append(diffs, IF diffs = <<>> THEN Delay(FfmpegLastDelay, 1) ELSE diffs[Len(diffs)])

\* ImageEntry::load_image_ffmpeg
load_image_ffmpeg(ff, is_thumbnail) ==
    IF ~ff.ok THEN Err("decode")
    ELSE LET pts_values == FfmpegCollect(ff.packets, <<>>, <<>>, is_thumbnail)
             n == Len(pts_values)
         IN IF n = 1 THEN Still
            ELSE IF n = 0 THEN Panic    \* 0..pts_values.len() - 1 underflows
            ELSE LET delays == FfmpegDelays(pts_values)
                 \* each buffer, in order, takes delays.pop()
                 IN Animated([k \in 1..n |-> delays[n + 1 - k]])

-----------------------------------------------------------------------------
(* The decode entry points *)

\* the entry point o, called on the file, returns r after running the stages t
\* with the sniffer answering s.  The entry points are associated functions
\* without state of their own, so a behaviour is one call.
Return(o, r, t, s) ==
    /\ op = "none"
    /\ op' = o
    /\ result' = r
    /\ trace' = t
    /\ sniffed' = s
    /\ UNCHANGED <<file, videoVars, appVars>>

\* the match on the sniffed tag in load_image
LoadImageDispatch(fmt, t) ==
    CASE fmt = "Dicom" ->
            \E d \in Answers(file, CountOutcomes(MaxFrames)) :
                LET r == load_dicom_image(d)
                IN Return("load_image", r, Append(t, Stage("dicom", r)), fmt)
      [] fmt = "Rpgmv" ->
            \E ok \in OkAnswers(file) :
                LET r == load_single(ok)
                IN Return("load_image", r, Append(t, Stage("rpgmv", r)), fmt)
      [] fmt = "JpegLs" ->
            \E ok \in OkAnswers(file) :
                LET r == load_single(ok)
                IN Return("load_image", r, Append(t, Stage("jpegls", r)), fmt)
      [] fmt \in {"JBig1", "JBig2"} ->
            \E j \in Answers(file, CountOutcomes(MaxImages)) :
                LET r == load_jbig_image(j)
                IN Return("load_image", r, Append(t, Stage("jbig", r)), fmt)
      [] fmt = "Unknown" ->
            \E ok \in OkAnswers(file) :
                LET r == load_single(ok)
                    t2 == Append(t, Stage("raw", r))
                IN IF IsOk(r) THEN Return("load_image", r, t2, fmt)
                   ELSE \E ff \in Answers(file, FfmpegOutcomes) :
                        LET r2 == load_image_ffmpeg(ff, FALSE)
                        IN Return("load_image", r2, Append(t2, Stage("ffmpeg", r2)), fmt)

\* load_image with the sniffer consulted before the native decoder
LoadImageSniffFirst ==
    LET g == try_guess_format(file)
    IN IF g.ok /\ g.fmt = "Dicom"
       THEN LoadImageDispatch("Dicom", <<[stage |-> "sniff", ok |-> TRUE]>>)
       ELSE \E nat \in Answers(file, NativeOutcomes) :
            LET r == load_image_native(nat)
                t == <<Stage("native", r)>>
                t2 == Append(t, [stage |-> "sniff", ok |-> g.ok])
            IN IF IsOk(r) THEN Return("load_image", r, t, "NotRun")
               ELSE IF ~g.ok THEN Return("load_image", Err("io"), t2, g.fmt)
               ELSE LoadImageDispatch(g.fmt, t2)

\* ImageEntry::load_image
LoadImage ==
    \E nat \in Answers(file, NativeOutcomes) :
        LET r == load_image_native(nat)
            t == <<Stage("native", r)>>
        IN IF IsOk(r) THEN Return("load_image", r, t, "NotRun")
           ELSE LET g == try_guess_format(file)
                    t2 == Append(t, [stage |-> "sniff", ok |-> g.ok])
                IN IF ~g.ok THEN Return("load_image", Err("io"), t2, g.fmt)
                   ELSE LoadImageDispatch(g.fmt, t2)

\* Option<Image> from a Result: Ok(image) => Some(image), Err => None
AsOption(r) == IF r.kind = "Err" THEN NoImage ELSE r

\* one way a decode entry point can run: what it returns, the stages it ran
\* and what the sniffer answered
Run(r, t, s) == [r |-> r, t |-> t, s |-> s]

\* the match on the sniffed tag in load_thumbnail, on the file f
LoadThumbnailDispatch(f, fmt, t, s) ==
    CASE fmt = "Dicom" ->
            { LET r == load_dicom_image(d)
              IN Run(AsOption(r), Append(t, Stage("dicom", r)), s) :
                d \in Answers(f, CountOutcomes(MaxFrames)) }
      [] fmt = "Rpgmv" ->
            { LET r == load_single(ok)
              IN Run(AsOption(r), Append(t, Stage("rpgmv", r)), s) : ok \in OkAnswers(f) }
      [] fmt = "JpegLs" ->
            { LET r == load_single(ok)
              IN Run(AsOption(r), Append(t, Stage("jpegls", r)), s) : ok \in OkAnswers(f) }
      [] fmt \in {"JBig1", "JBig2"} ->
            { LET r == load_jbig_image(j)
              IN Run(AsOption(r), Append(t, Stage("jbig", r)), s) :
                j \in Answers(f, CountOutcomes(MaxImages)) }
      [] fmt = "Unknown" ->
            { LET r == load_single(ok)
              IN Run(AsOption(r), Append(t, Stage("raw", r)), s) : ok \in OkAnswers(f) }

\* load_thumbnail on a file that is not an image by its extension, ffmpeg
\* answering ff: video-frame extraction and nothing else
thumbnail_of_video(ff) ==
    LET r == load_image_ffmpeg(ff, TRUE)
    IN Run(AsOption(r), <<Stage("ffmpeg", r)>>, "NotRun")

\* load_thumbnail on a file that is an image by its extension: the ways it
\* can run
thumbnail_of_image(f) ==
    UNION { LET r == load_single(ok)
                t == <<Stage("thumbnail_native", r)>>
            IN IF IsOk(r) THEN { Run(r, t, "NotRun") }
               ELSE LET g == try_guess_format(f)
                        \* try_guess_format(file).unwrap_or(ImageFormat::Unknown)
                        img_format == IF g.ok THEN g.fmt ELSE "Unknown"
                    IN LoadThumbnailDispatch(f, img_format,
                           Append(t, [stage |-> "sniff", ok |-> g.ok]), g.fmt) :
            ok \in OkAnswers(f) }

ReturnThumbnail(x) == Return("load_thumbnail", x.r, x.t, x.s)

\* a call of ImageEntry::load_thumbnail on the file
LoadThumbnail ==
    IF ~is_image(file)
    THEN \E ff \in Answers(file, FfmpegOutcomes) : ReturnThumbnail(thumbnail_of_video(ff))
    ELSE \E x \in thumbnail_of_image(file) : ReturnThumbnail(x)

-----------------------------------------------------------------------------
(* The video session of video_entry.rs *)

NoFrame == 0

Min(a, b) == IF a <= b THEN a ELSE b

\* (n / d).round() as u64: round half away from zero, negative saturates to 0
RoundToU64(n, d) == IF n <= 0 THEN 0 ELSE (2 * n + d) \div (2 * d)

\* x as u64 for an i64 x: negative values wrap around
AsU64(x) == IF x >= 0 THEN x ELSE x + WrapModulus

\* the packets of the video stream, in file order; the first one carries a
\* negative pts, as streams with an edit list do
PacketPts(i) == (i - 2) * TicksPerPacket

\* (pts as f64 * time_base * 1000.0).round() as u64
PtsToMs(pts) == RoundToU64(pts * TimeBaseNum * 1000, TimeBaseDen)

\* what the decoder does with one packet: it releases a picture ("frame") or
\* not ("none": it needs more input, or send_packet / the scaler failed)
PacketOutcomes == {"frame", "none"}

\* the answers to the successive packets of one get_current_frame call; the
\* call stops decoding at the first packet that releases no picture
DecoderAnswers ==
    { [i \in 1..NumPackets |-> IF i <= k THEN "frame" ELSE "none"] : k \in 0..NumPackets }

\* wall-clock time between two get_current_frame calls, ms
TickSpacings == {0, 1000, 2000}

\* the packets a demuxer seek can land on
Keyframes == { i \in 1..NumPackets : (i - 1) % KeyframeEvery = 0 }

\* stream.duration() in ticks and the container's duration in microseconds;
\* negative when the file does not say
StreamDurations == {-1, 3500}
ContainerDurations == {-1, 12000000}

\* the duration computed in VideoEntry::new
DurationOf(stream_duration, container_duration) ==
    IF stream_duration >= 0
    THEN RoundToU64(stream_duration * TimeBaseNum * 1000, TimeBaseDen)
    ELSE IF container_duration >= 0 THEN RoundToU64(container_duration, 1000)
    ELSE 0

\* targets of seek and the distances of seek_relative (layout.rs: +-5 s)
SeekTargets == {2000, 13000}
SeekDeltas == {-5000, 5000}

\* should_fill_buffer comparing with <= instead of <
should_fill_buffer_inclusive(frames) == Len(frames) <= BufferSize

\* FramesBuffer::should_fill_buffer
should_fill_buffer(frames) == Len(frames) < BufferSize

\* self.current_time.min(self.video_duration) without the min
Unclamped(time) == time

\* self.current_time = self.current_time.min(self.video_duration)
ClampToDuration(time) == Min(time, video_duration)

\* the part of the session decode_next_frame works on
Decoder == [pos |-> video_pos, time |-> current_time, draining |-> draining,
            panicked |-> panicked, buffer |-> frames_buffer]

\* VideoEntry::decode_next_frame on the decoder state d, the decoder answering
\* out for the packet it is fed: the new decoder state and the frame returned
decode_next_frame(d, out) ==
    IF d.pos > NumPackets
    THEN \* the packet iterator is exhausted: self.video_decoder.send_eof().unwrap()
         IF d.draining
         THEN [d |-> [d EXCEPT !.panicked = TRUE], frame |-> NoFrame]
         ELSE [d |-> [d EXCEPT !.draining = TRUE], frame |-> NoFrame]
    ELSE LET current_pts == PacketPts(d.pos)
             read == [d EXCEPT !.pos = d.pos + 1]
         IN IF d.draining \/ out = "none"
            THEN [d |-> read, frame |-> NoFrame]
            ELSE [d |-> [read EXCEPT !.time = ClampToDuration(PtsToMs(current_pts))],
                  frame |-> d.pos]

\* FramesBuffer::push of an Option: Some(frame) is pushed, None is not
PushFrame(r) ==
    IF r.frame = NoFrame THEN r.d
    ELSE [r.d EXCEPT !.buffer = Append(r.d.buffer, r.frame)]

\* while self.frames_buffer.should_fill_buffer() { decode; push or break }
RECURSIVE FillBuffer(_, _, _)
FillBuffer(d, outs, k) ==
    IF ~should_fill_buffer(d.buffer) \/ k > Len(outs) THEN d
    ELSE LET r == decode_next_frame(d, outs[k])
         IN IF r.d.panicked THEN r.d
            ELSE IF r.frame = NoFrame THEN r.d
            ELSE FillBuffer(PushFrame(r), outs, k + 1)

\* a pop that takes the newest frame instead of the oldest
pop_back(frames) ==
    IF frames = <<>> THEN [frame |-> NoFrame, rest |-> frames]
    ELSE [frame |-> frames[Len(frames)], rest |-> SubSeq(frames, 1, Len(frames) - 1)]

\* FramesBuffer::pop: the frame handed out (NoFrame for None) and what stays
pop(frames) ==
    IF frames = <<>> THEN [frame |-> NoFrame, rest |-> frames]
    ELSE [frame |-> Head(frames), rest |-> Tail(frames)]

\* match self.cached_frame { Some => it, None => frames_buffer.front() }
CachedOrFront(cached, buffer) ==
    IF cached # NoFrame THEN cached
    ELSE IF buffer # <<>> THEN Head(buffer) ELSE NoFrame

\* elapsed >= 1.0 / self.frame_rate, elapsed in ms
AdvanceDue(elapsed) == elapsed * FrameRateNum >= 1000 * FrameRateDen

\* the call o(a) is noted as the last one; rep tells that it repeats the call
\* made just before
Record(o, a) ==
    last' = [op |-> o, arg |-> a, rep |-> (last.op = o /\ last.arg = a)]

SetDecoder(d) ==
    /\ video_pos' = d.pos
    /\ current_time' = d.time
    /\ draining' = d.draining
    /\ panicked' = d.panicked

\* VideoEntry::get_current_frame, called dt ms after the previous call
GetCurrentFrame ==
    \E dt \in TickSpacings, outs \in DecoderAnswers :
        /\ ~panicked
        /\ UNCHANGED <<is_playing, video_duration, decodeVars, appVars>>
        /\ LET elapsed == Min(since_last_frame + dt, MaxElapsed) IN
           /\ Record("get_current_frame", elapsed)
           /\ IF ~is_playing
              THEN LET d == IF frames_buffer = <<>>
                            THEN PushFrame(decode_next_frame(Decoder, outs[1]))
                            ELSE Decoder
                       texture_handle == CachedOrFront(cached_frame, d.buffer)
                   IN /\ SetDecoder(d)
                      /\ frames_buffer' = d.buffer
                      /\ buffer_peak' = Len(d.buffer)
                      /\ IF d.panicked
                         THEN UNCHANGED <<cached_frame, audio_paused>>
                         ELSE cached_frame' = texture_handle /\ audio_paused' = TRUE
                      /\ since_last_frame' = elapsed
              ELSE IF AdvanceDue(elapsed)
              THEN LET d == FillBuffer(Decoder, outs, 1)
                       texture_handle == pop(d.buffer).frame
                       popped == pop(d.buffer).rest
                   IN /\ SetDecoder(d)
                      /\ buffer_peak' = Len(d.buffer)
                      /\ since_last_frame' = 0      \* self.last_frame_time = now
                      /\ IF d.panicked
                         THEN /\ frames_buffer' = d.buffer
                              /\ UNCHANGED <<cached_frame, audio_paused>>
                         ELSE /\ frames_buffer' = popped
                              /\ cached_frame' = texture_handle
                              /\ audio_paused' = (popped = <<>>)
              ELSE /\ cached_frame' = CachedOrFront(cached_frame, frames_buffer)
                   /\ audio_paused' = (frames_buffer = <<>>)
                   /\ since_last_frame' = elapsed
                   /\ buffer_peak' = Len(frames_buffer)
                   /\ UNCHANGED <<frames_buffer, video_pos, current_time, draining, panicked>>

\* VideoEntry::play
Play ==
    /\ ~panicked
    /\ is_playing' = TRUE
    /\ Record("play", 0)
    /\ buffer_peak' = Len(frames_buffer)
    /\ UNCHANGED <<current_time, video_duration, frames_buffer, cached_frame,
                   since_last_frame, video_pos, draining, audio_paused, panicked,
                   decodeVars, appVars>>

\* VideoEntry::pause
Pause ==
    /\ ~panicked
    /\ is_playing' = FALSE
    /\ Record("pause", 0)
    /\ buffer_peak' = Len(frames_buffer)
    /\ UNCHANGED <<current_time, video_duration, frames_buffer, cached_frame,
                   since_last_frame, video_pos, draining, audio_paused, panicked,
                   decodeVars, appVars>>

\* VideoEntry::toggle_playback
TogglePlayback ==
    /\ ~panicked
    /\ is_playing' = ~is_playing
    /\ Record("toggle_playback", 0)
    /\ buffer_peak' = Len(frames_buffer)
    /\ UNCHANGED <<current_time, video_duration, frames_buffer, cached_frame,
                   since_last_frame, video_pos, draining, audio_paused, panicked,
                   decodeVars, appVars>>

\* seek without the clamp to the duration
NoClampSeek(time) == time

\* let time = time.min(self.video_duration); let time = time.max(0);
ClampSeek(time) == LET t == Min(time, video_duration) IN IF t >= 0 THEN t ELSE 0

\* the body of VideoEntry::seek for the u64 argument time.  The demuxer seek
\* either fails and leaves the read cursor, or lands on a keyframe; the audio
\* seek acts on the sink only, and its failure is only printed.
seek(time) ==
    LET t == ClampSeek(time)
    IN /\ \E video_ok \in BOOLEAN :
            \E landed \in IF video_ok THEN Keyframes ELSE {video_pos} :
                video_pos' = landed
       /\ frames_buffer' = <<>>
       /\ buffer_peak' = 0
       /\ current_time' = t

\* VideoEntry::seek
Seek ==
    \E time \in SeekTargets :
        /\ ~panicked
        /\ seek(time)
        /\ Record("seek", time)
        /\ UNCHANGED <<is_playing, video_duration, cached_frame, since_last_frame,
                       draining, audio_paused, panicked, decodeVars, appVars>>

\* VideoEntry::seek_relative
SeekRelative ==
    \E time \in SeekDeltas :
        LET new_time == current_time + time
        IN /\ ~panicked
           /\ seek(AsU64(new_time))
           /\ Record("seek_relative", time)
           /\ UNCHANGED <<is_playing, video_duration, cached_frame, since_last_frame,
                          draining, audio_paused, panicked, decodeVars, appVars>>

\* no file is being decoded
DecodeIdle ==
    /\ file = [readable |-> FALSE, ext |-> NoExt, bytes |-> Content(0, <<>>, <<>>)]
    /\ result = NotRun
    /\ trace = <<>>
    /\ sniffed = "NotRun"
    /\ op = "none"

\* no thumbnail batch is running
BatchIdle ==
    /\ batch_files = <<>>
    /\ app_settings = [show_failed_files |-> TRUE]
    /\ tasks = <<>>
    /\ entries = <<>>
    /\ entries_lock = 0
    /\ newest = 1
    /\ dialog = "none"

\* no layout function has been called
UtilsIdle ==
    /\ call = [fn |-> "none"]
    /\ ret = <<>>

\* app.current_entry = None
NoCurrentEntry == [at |-> 0, media_type |-> "None", image |-> "None", video |-> 0]

\* no image preview is open
ImageIdle ==
    /\ image = NotRun
    /\ current_frame_index = 0
    /\ last_frame_age = 0
    /\ image_call = [op |-> "none", elapsed |-> 0, returned |-> "None"]

\* the App shows the grid and no video session is alive
PreviewIdle ==
    /\ current_entry = NoCurrentEntry
    /\ audio_owners = {}
    /\ sessions_opened = 0

\* the session VideoEntry::new returns
VideoInit ==
    /\ DecodeIdle
    /\ BatchIdle
    /\ UtilsIdle
    /\ ImageIdle
    /\ PreviewIdle
    /\ session = "open"
    /\ \E sd \in StreamDurations, cd \in ContainerDurations :
            video_duration = DurationOf(sd, cd)
    /\ current_time = 0
    /\ is_playing = FALSE
    /\ frames_buffer = <<>>
    /\ cached_frame = NoFrame
    /\ since_last_frame = 0
    /\ video_pos = 1
    /\ draining = FALSE
    /\ audio_paused = FALSE
    /\ panicked = FALSE
    /\ buffer_peak = 0
    /\ last = [op |-> "new", arg |-> 0, rep |-> FALSE]

VideoNext == GetCurrentFrame \/ Play \/ Pause \/ TogglePlayback \/ Seek \/ SeekRelative

\* no video is open
VideoIdle ==
    /\ session = "none"
    /\ video_duration = 0
    /\ current_time = 0
    /\ is_playing = FALSE
    /\ frames_buffer = <<>>
    /\ cached_frame = NoFrame
    /\ since_last_frame = 0
    /\ video_pos = 1
    /\ draining = FALSE
    /\ audio_paused = FALSE
    /\ panicked = FALSE
    /\ buffer_peak = 0
    /\ last = [op |-> "none", arg |-> 0, rep |-> FALSE]

\* VideoEntry::new.  format::input, streams.best, the codec contexts, the
\* decoders and the scaler each return None on failure; the audio output is
\* opened with rodio::OutputStream::try_default().unwrap() and
\* rodio::Sink::try_new(..).unwrap().
New ==
    \E input_ok, video_stream, audio_stream, decoders_ok, audio_device \in BOOLEAN :
        /\ session = "none"
        /\ ~panicked
        /\ last.op = "none"
        /\ IF ~input_ok \/ ~video_stream \/ ~audio_stream \/ ~decoders_ok
           THEN /\ session' = "failed"        \* return None
                /\ last' = [op |-> "new", arg |-> 0, rep |-> FALSE]
                /\ UNCHANGED <<is_playing, current_time, video_duration, frames_buffer,
                               cached_frame, since_last_frame, video_pos, draining,
                               audio_paused, panicked, buffer_peak, decodeVars,
                               batchVars, utilsVars, imageVars, previewVars>>
           ELSE IF ~audio_device
           THEN /\ panicked' = TRUE           \* unwrap() of an Err
                /\ last' = [op |-> "new", arg |-> 0, rep |-> FALSE]
                /\ UNCHANGED <<is_playing, current_time, video_duration, frames_buffer,
                               cached_frame, since_last_frame, video_pos, draining,
                               audio_paused, buffer_peak, decodeVars, appVars>>
           ELSE /\ session' = "open"          \* Some(entry)
                /\ \E sd \in StreamDurations, cd \in ContainerDurations :
                        video_duration' = DurationOf(sd, cd)
                /\ current_time' = 0
                /\ is_playing' = FALSE
                /\ frames_buffer' = <<>>
                /\ cached_frame' = NoFrame
                /\ since_last_frame' = 0
                /\ video_pos' = 1
                /\ draining' = FALSE
                /\ audio_paused' = FALSE
                /\ panicked' = FALSE
                /\ buffer_peak' = 0
                /\ last' = [op |-> "new", arg |-> 0, rep |-> FALSE]
                /\ UNCHANGED <<decodeVars, batchVars, utilsVars, imageVars, previewVars>>

\* a call on the session that new returned
SessionCall == session = "open" /\ VideoNext

DecodeInit ==
    /\ file \in Files
    /\ result = NotRun
    /\ trace = <<>>
    /\ sniffed = "NotRun"
    /\ op = "none"
    /\ VideoIdle
    /\ BatchIdle
    /\ UtilsIdle
    /\ ImageIdle
    /\ PreviewIdle

DecodeNext == LoadImage \/ LoadThumbnail

\* no decode entry point, video session, batch or layout call is under way
OpenInit ==
    DecodeIdle /\ VideoIdle /\ BatchIdle /\ UtilsIdle /\ ImageIdle /\ PreviewIdle

OpenNext == New \/ SessionCall

DecodeSpec == DecodeInit /\ [][DecodeNext]_vars

VideoSpec == VideoInit /\ [][VideoNext]_vars

\* a video opened from the grid (layout.rs) and then driven
OpenSpec == OpenInit /\ [][OpenNext]_vars

-----------------------------------------------------------------------------
(* The image preview of image_entry.rs *)

MaxAge == 1000          \* elapsed times of an image entry are counted up to this many ms

FallbackDelayNum == 8333    \* 83.33 ms, the delay used for a zero or missing delay
FallbackDelayDen == 100
StillPeriod == 1000         \* a Still restarts its clock every 1.0 s

\* wall-clock time between two get_current_frame calls on an image entry, ms
ImageTickSpacings == {0, 40, 1000}

\* the images load_image can hand to ImageEntry::new: what the native
\* decoder, the DICOM decoder and ffmpeg return on success
LoadedImages ==
    { r \in { load_image_native(nat) : nat \in NativeOutcomes }
            \cup { load_dicom_image(d) : d \in CountOutcomes(MaxFrames) }
            \cup { load_image_ffmpeg(ff, FALSE) : ff \in FfmpegOutcomes } : IsOk(r) }

\* the delay get_current_frame waits for on frame index (0-based), in ms as
\* a fraction: the frame's own delay, 83.33 when that is zero or when the
\* index names no frame
frame_delay(frames, index) ==
    IF index + 1 \in 1..Len(frames)
    THEN LET d == frames[index + 1]
         IN IF d[1] = 0 THEN Delay(FallbackDelayNum, FallbackDelayDen) ELSE d
    ELSE Delay(FallbackDelayNum, FallbackDelayDen)

\* elapsed >= delay / 1000.0, elapsed in ms
DelayElapsed(elapsed, delay) == elapsed * delay[2] >= delay[1]

\* animated_image.frames.get(index)?.texture.clone()
frame_texture(frames, index) ==
    IF index + 1 \in 1..Len(frames) THEN "Some" ELSE "None"

\* the entry ImageEntry::new builds around a loaded image
ImageInit ==
    /\ DecodeIdle
    /\ VideoIdle
    /\ BatchIdle
    /\ UtilsIdle
    /\ PreviewIdle
    /\ image \in LoadedImages
    /\ current_frame_index = 0
    /\ last_frame_age = 0
    /\ image_call = [op |-> "new", elapsed |-> 0, returned |-> "Some"]

\* ImageEntry::get_current_frame, called dt ms after the previous call.  With
\* no frames the remainder (index + 1) % frames.len() divides by zero and
\* panics.
ImageGetCurrentFrame ==
    \E dt \in ImageTickSpacings :
        LET elapsed == Min(last_frame_age + dt, MaxAge)
            frames == image.frames
            due == DelayElapsed(elapsed, frame_delay(frames, current_frame_index))
            Called(r) == image_call' = [op |-> "get_current_frame",
                                        elapsed |-> elapsed, returned |-> r]
        IN /\ image_call.returned # "panic"
           /\ IF image.kind = "Still"
              THEN /\ last_frame_age' = IF elapsed >= StillPeriod THEN 0 ELSE elapsed
                   /\ Called("Some")
                   /\ UNCHANGED current_frame_index
              ELSE IF ~due
              THEN /\ last_frame_age' = elapsed
                   /\ Called(frame_texture(frames, current_frame_index))
                   /\ UNCHANGED current_frame_index
              ELSE IF frames = <<>>
              THEN /\ last_frame_age' = 0       \* self.last_frame_time = now
                   /\ Called("panic")
                   /\ UNCHANGED current_frame_index
              ELSE /\ last_frame_age' = 0
                   /\ current_frame_index' = (current_frame_index + 1) % Len(frames)
                   /\ Called(frame_texture(frames, current_frame_index'))
           /\ UNCHANGED <<image, decodeVars, videoVars, session, batchVars, utilsVars,
                          previewVars>>

ImageNext == ImageGetCurrentFrame

ImageSpec == ImageInit /\ [][ImageNext]_vars

-----------------------------------------------------------------------------
(* The thumbnail batch of main.rs *)

NumFiles == 3           \* paths picked for one batch

\* content carrying no signature
PlainBytes == Content(HeaderLen, <<0, 0, 0, 0, 0>>, <<0, 0, 0, 0>>)

\* the kinds of path a user can pick: an image and a video by extension, a
\* file without extension holding a legacy-engine image, and a text file
PickedFiles ==
    { [readable |-> TRUE, ext |-> "png", bytes |-> PlainBytes],
      [readable |-> TRUE, ext |-> "mp4", bytes |-> PlainBytes],
      [readable |-> TRUE, ext |-> NoExt,
       bytes |-> Content(HeaderLen, RpgmvMagic, <<0, 0, 0, 0>>)],
      [readable |-> TRUE, ext |-> "txt", bytes |-> PlainBytes] }

\* Image::get_texture: the first frame's texture, None without frames
get_texture(img) ==
    IF img.kind = "Still" THEN "Some"
    ELSE IF img.kind = "Animated" /\ img.frames # <<>> THEN "Some"
    ELSE "None"

\* a step of the batch leaves the rest of the App alone
BatchFrame ==
    UNCHANGED <<decodeVars, videoVars, session, utilsVars, imageVars, previewVars>>

\* the first half of the closure of load_files on file i: load_thumbnail and
\* the match on what it returned.  A panic inside load_thumbnail unwinds the
\* task before it reaches the push.
StoreTexture(i, x) ==
    /\ tasks' = [tasks EXCEPT ![i] =
                    IF x.r.kind = "Panic" THEN [pc |-> "panicked", texture |-> "None"]
                    ELSE [pc |-> "loaded",
                          texture |-> IF x.r.kind = "None" THEN "None"
                                      ELSE get_texture(x.r)]]
    /\ UNCHANGED <<batch_files, app_settings, entries, entries_lock, newest, dialog>>
    /\ BatchFrame

\* ImageEntry::load_thumbnail(&texture_manager, &file, 512.0) in the task of
\* file i, with the dispatch of load_thumbnail on is_image
TaskLoad(i) ==
    /\ tasks[i].pc = "start"
    /\ IF ~is_image(batch_files[i])
       THEN \E ff \in Answers(batch_files[i], FfmpegOutcomes) :
                StoreTexture(i, thumbnail_of_video(ff))
       ELSE \E x \in thumbnail_of_image(batch_files[i]) : StoreTexture(i, x)

\* the GalleryEntry load_files builds for file i
GalleryEntry(i, texture) ==
    [path |-> i,
     failed |-> (texture = "None"),
     thumbnail |-> IF texture = "Some" THEN "texture" ELSE "default_texture",
     media_type |-> media_type(batch_files[i]),
     marked |-> FALSE]

\* the second half of the closure, for a file that gets an entry:
\* entries.lock().unwrap() is evaluated first and the guard lives to the end
\* of the push statement
TaskLock(i) ==
    /\ tasks[i].pc = "loaded"
    /\ app_settings.show_failed_files \/ tasks[i].texture = "Some"
    /\ entries_lock = 0
    /\ entries_lock' = i
    /\ tasks' = [tasks EXCEPT ![i].pc = "locked"]
    /\ UNCHANGED <<batch_files, app_settings, entries, newest, dialog>>
    /\ BatchFrame

\* the argument of push is evaluated after the receiver: for a failed file
\* the thumbnail field calls ImageEntry::default_texture, which decodes
\* missing.png (image::load_from_memory) and uploads it through load_texture,
\* taking the write lock of the texture manager
TaskPlaceholder(i) ==
    /\ tasks[i].pc = "locked"
    /\ tasks[i].texture = "None"
    /\ tasks' = [tasks EXCEPT ![i].pc = "placeholder"]
    /\ UNCHANGED <<batch_files, app_settings, entries, entries_lock, newest, dialog>>
    /\ BatchFrame

\* the push itself; the guard is dropped at the end of the statement
TaskPush(i) ==
    /\ \/ tasks[i].pc = "locked" /\ tasks[i].texture = "Some"
       \/ tasks[i].pc = "placeholder"
    /\ tasks' = [tasks EXCEPT ![i].pc = "done"]
    /\ entries' = Append(entries, GalleryEntry(i, tasks[i].texture))
    /\ entries_lock' = 0
    /\ UNCHANGED <<batch_files, app_settings, newest, dialog>>
    /\ BatchFrame

\* show_failed_files is off and the texture is None:
\* println!("Failed to load texture ...") and no entry
TaskSkip(i) ==
    /\ tasks[i].pc = "loaded"
    /\ ~app_settings.show_failed_files
    /\ tasks[i].texture = "None"
    /\ tasks' = [tasks EXCEPT ![i].pc = "done"]
    /\ UNCHANGED <<batch_files, app_settings, entries, entries_lock, newest, dialog>>
    /\ BatchFrame

\* load_files called on the filtered picks (main and
\* handle_selector_button_click), no task started yet
BatchInit ==
    /\ DecodeIdle
    /\ VideoIdle
    /\ UtilsIdle
    /\ ImageIdle
    /\ PreviewIdle
    /\ \E picked \in [1..NumFiles -> PickedFiles] :
            batch_files = filter_media_files(picked)
    /\ app_settings \in [show_failed_files : BOOLEAN]
    /\ tasks = [i \in 1..Len(batch_files) |-> [pc |-> "start", texture |-> "None"]]
    /\ entries = <<>>
    /\ entries_lock = 0
    /\ newest = 1
    /\ dialog = "none"

BatchNext ==
    \E i \in 1..Len(batch_files) :
        TaskLoad(i) \/ TaskLock(i) \/ TaskPlaceholder(i) \/ TaskPush(i) \/ TaskSkip(i)

\* files.into_par_iter().for_each(..): the tasks run in any interleaving
BatchSpec == BatchInit /\ [][BatchNext]_vars

NumSelected == 2        \* files picked in the first selection
NumReselected == 1      \* files picked in the selection that follows

\* handle_selector_button_click up to the spawn of the dialog thread:
\* app.entries.lock().unwrap().clear() under the mutex.  The tasks of the
\* batches started before keep their clone of the Arc.
ClickSelector ==
    /\ dialog = "none"
    /\ entries_lock = 0
    /\ entries' = <<>>
    /\ newest' = Len(batch_files) + 1
    /\ dialog' = "open"
    /\ UNCHANGED <<batch_files, app_settings, tasks, entries_lock>>
    /\ BatchFrame

\* the dialog thread: block_on(task) returns Some(files), which are filtered
\* and handed to load_files with the same Arc, or None
FilesPicked ==
    /\ dialog = "open"
    /\ dialog' = "closed"
    /\ \E picked \in [1..NumReselected -> PickedFiles] \cup {<<>>} :
            LET new_files == filter_media_files(picked)
            IN /\ batch_files' = batch_files \o new_files
               /\ tasks' = tasks \o [i \in 1..Len(new_files) |->
                                        [pc |-> "start", texture |-> "None"]]
    /\ UNCHANGED <<app_settings, entries, entries_lock, newest>>
    /\ BatchFrame

\* load_files has been called on a first selection, no task started yet
SelectInit ==
    /\ DecodeIdle
    /\ VideoIdle
    /\ UtilsIdle
    /\ ImageIdle
    /\ PreviewIdle
    /\ \E picked \in [1..NumSelected -> PickedFiles] :
            batch_files = filter_media_files(picked)
    /\ app_settings \in [show_failed_files : BOOLEAN]
    /\ tasks = [i \in 1..Len(batch_files) |-> [pc |-> "start", texture |-> "None"]]
    /\ entries = <<>>
    /\ entries_lock = 0
    /\ newest = 1
    /\ dialog = "none"

SelectNext == BatchNext \/ ClickSelector \/ FilesPicked

\* a batch is loading and the user selects again
SelectSpec == SelectInit /\ [][SelectNext]_vars

-----------------------------------------------------------------------------
(* The preview of layout.rs *)

MaxSessions == 3        \* video sessions opened in one run of the App

\* what ImageEntry::new can return: an entry around a Still or an Animated, or None
ImageOutcomes == {"Still", "Animated", "None"}

\* what VideoEntry::new can do: return Some(entry) or None, or panic on the
\* unwrap of the audio output
VideoOutcomes == {"Some", "None", "panic"}

\* the old value of app.current_entry is kept alive instead of dropped
leaked(entry, owners) == owners

\* the old value of app.current_entry is dropped: a VideoEntry in it drops its
\* audio_sink and audio_playback_stream (video is 0 when it holds none)
dropped(entry, owners) == owners \ {entry.video}

\* the CurrentEntry built around a video session / an image entry for the
\* gallery entry i
VideoCurrentEntry(i, id) ==
    [at |-> i, media_type |-> "Video", image |-> "None", video |-> id]

ImageCurrentEntry(i, img) ==
    [at |-> i,
     media_type |-> IF img = "Still" THEN "ImageStill" ELSE "ImageAnimated",
     image |-> IF img = "None" THEN "None" ELSE "Some",
     video |-> 0]

\* the opening of gallery entry i, the same code in build_grid (secondary
\* click) and in build_preview (arrow keys): VideoEntry::new or
\* ImageEntry::new first, then the assignment to app.current_entry, which
\* drops the value it replaces
OpenEntry(i) ==
    IF entries[i].media_type = "Video"
    THEN \E video \in VideoOutcomes :
            CASE video = "Some" ->
                    LET id == sessions_opened + 1
                    IN /\ sessions_opened < MaxSessions
                       /\ sessions_opened' = id
                       /\ audio_owners' = dropped(current_entry, audio_owners \cup {id})
                       /\ current_entry' = VideoCurrentEntry(i, id)
                       /\ UNCHANGED panicked
              [] video = "None" ->
                    UNCHANGED <<previewVars, panicked>>
              [] video = "panic" ->
                    /\ panicked' = TRUE
                    /\ UNCHANGED previewVars
    ELSE \E img \in ImageOutcomes :
            /\ current_entry' = ImageCurrentEntry(i, img)
            /\ audio_owners' = dropped(current_entry, audio_owners)
            /\ UNCHANGED <<sessions_opened, panicked>>

PreviewFrame ==
    UNCHANGED <<is_playing, current_time, video_duration, frames_buffer, cached_frame,
                since_last_frame, video_pos, draining, audio_paused, buffer_peak, last,
                decodeVars, session, batchVars, utilsVars, imageVars>>

\* build_grid: a secondary click on the cell of entry i.  update() builds the
\* grid only while current_entry is None.
GridOpen ==
    \E i \in 1..Len(entries) :
        /\ ~panicked
        /\ current_entry = NoCurrentEntry
        /\ OpenEntry(i)
        /\ PreviewFrame

\* build_preview: Escape or a secondary press
PreviewClose ==
    /\ ~panicked
    /\ current_entry # NoCurrentEntry
    /\ current_entry' = NoCurrentEntry
    /\ audio_owners' = dropped(current_entry, audio_owners)
    /\ UNCHANGED <<sessions_opened, panicked>>
    /\ PreviewFrame

\* build_preview: ArrowRight or ArrowLeft.  On a video the keys only seek
\* (with shift) and the handler returns; on an image whose load failed it
\* returns; otherwise the neighbour of the current entry is opened.
PreviewNavigate ==
    \E right \in BOOLEAN :
        /\ ~panicked
        /\ current_entry # NoCurrentEntry
        /\ PreviewFrame
        /\ IF current_entry.video # 0 \/ current_entry.image = "None"
           THEN UNCHANGED <<previewVars, panicked>>
           ELSE LET current_entry_index == current_entry.at
                    previous_entry_index ==
                        IF current_entry_index = 1 THEN Len(entries)
                        ELSE current_entry_index - 1
                    next_entry_index ==
                        IF current_entry_index + 1 > Len(entries) THEN 1
                        ELSE current_entry_index + 1
                    index_to_use == IF right THEN next_entry_index ELSE previous_entry_index
                IN OpenEntry(index_to_use)

\* the App with the grid of a finished thumbnail batch
PreviewInit ==
    /\ DecodeIdle
    /\ VideoIdle
    /\ UtilsIdle
    /\ ImageIdle
    /\ PreviewIdle
    /\ \E picked \in [1..NumFiles -> PickedFiles] :
            batch_files = filter_media_files(picked)
    /\ app_settings = [show_failed_files |-> TRUE]
    /\ tasks = [i \in 1..Len(batch_files) |-> [pc |-> "done", texture |-> "Some"]]
    /\ entries = [i \in 1..Len(batch_files) |-> GalleryEntry(i, "Some")]
    /\ entries_lock = 0
    /\ newest = 1
    /\ dialog = "none"

PreviewNext == GridOpen \/ PreviewClose \/ PreviewNavigate

PreviewSpec == PreviewInit /\ [][PreviewNext]_vars

-----------------------------------------------------------------------------
(* The layout functions of utils.rs *)

\* An f32 is modelled by the exact fraction <<n, d>>, d > 0, in lowest terms:
\* the functions are followed operation by operation without the rounding of
\* the last bit.  The sampled arguments are small integers and halves, on
\* which the comparisons of the code come out as on the exact values.
RECURSIVE Gcd(_, _)
Gcd(a, b) == IF b = 0 THEN a ELSE Gcd(b, a % b)

Abs(x) == IF x < 0 THEN -x ELSE x

Rat(n, d) ==
    LET g == Gcd(Abs(n), d) IN <<n \div g, d \div g>>

One == Rat(1, 1)

RatLe(a, b) == a[1] * b[2] <= b[1] * a[2]
RatLt(a, b) == a[1] * b[2] < b[1] * a[2]
RatMul(a, b) == Rat(a[1] * b[1], a[2] * b[2])
RatDiv(a, b) == Rat(a[1] * b[2], a[2] * b[1])    \* b > 0

\* f32::max
RatMax(a, b) == IF RatLe(a, b) THEN b ELSE a

MaxColumns == 4         \* largest max_columns_count sampled

\* the arguments sampled for calculate_thumbnail_layout
LayoutCalls ==
    { [fn |-> "calculate_thumbnail_layout", available_width |-> aw,
       min_thumbnail_width |-> mw, thumbnail_gap |-> gap, max_columns_count |-> mc] :
        aw \in {0, 150, 200, 410, 630, 1000}, mw \in {100, 200},
        gap \in {0, 10}, mc \in 0..MaxColumns }

\* the arguments sampled for calculate_contain_size
ContainerSizes == { Rat(1, 2), Rat(1, 1), Rat(100, 1), Rat(256, 1) }
ImageSizes == { Rat(1, 1), Rat(3, 1), Rat(300, 1), Rat(400, 1) }

ContainCalls ==
    { [fn |-> "calculate_contain_size", container_width |-> cw,
       container_height |-> ch, img_width |-> iw, img_height |-> ih] :
        cw \in ContainerSizes, ch \in ContainerSizes,
        iw \in ImageSizes, ih \in ImageSizes }

\* for columns in (1..=max_columns_count).rev() { ... }, from columns down
RECURSIVE LayoutLoop(_, _, _, _)
LayoutLoop(available_width, min_thumbnail_width, thumbnail_gap, columns) ==
    IF columns < 1
    THEN [columns |-> 1, width |-> Rat(available_width, 1)]
    ELSE LET total_gaps == (columns - 1) * thumbnail_gap
             max_thumbnail_width == Rat(available_width - total_gaps, columns)
         IN IF RatLe(Rat(min_thumbnail_width, 1), max_thumbnail_width)
            THEN [columns |-> columns, width |-> max_thumbnail_width]
            ELSE LayoutLoop(available_width, min_thumbnail_width, thumbnail_gap,
                            columns - 1)

\* the layout with the column counts tried from 1 upwards
calculate_thumbnail_layout_ascending(available_width, min_thumbnail_width, thumbnail_gap, max_columns_count) ==
    LET fits == { c \in 1..max_columns_count :
                    RatLe(Rat(min_thumbnail_width, 1),
                          Rat(available_width - (c - 1) * thumbnail_gap, c)) }
    IN IF fits = {} THEN [columns |-> 1, width |-> Rat(available_width, 1)]
       ELSE LET c == CHOOSE x \in fits : \A y \in fits : x <= y
            IN [columns |-> c,
                width |-> Rat(available_width - (c - 1) * thumbnail_gap, c)]

\* utils.rs calculate_thumbnail_layout
calculate_thumbnail_layout(available_width, min_thumbnail_width, thumbnail_gap, max_columns_count) ==
    LayoutLoop(available_width, min_thumbnail_width, thumbnail_gap, max_columns_count)

\* the fit with the comparison of the aspect ratios turned around
calculate_contain_size_flipped(container_width, container_height, img_width, img_height) ==
    LET container_aspect_ratio == RatDiv(container_width, container_height)
        img_aspect_ratio == RatDiv(img_width, img_height)
    IN IF RatLt(img_aspect_ratio, container_aspect_ratio)
       THEN LET width == container_width
                height == RatDiv(container_width, img_aspect_ratio)
            IN <<RatMax(width, One), RatMax(height, One)>>
       ELSE LET height == container_height
                width == RatMul(container_height, img_aspect_ratio)
            IN <<RatMax(width, One), RatMax(height, One)>>

\* utils.rs calculate_contain_size
calculate_contain_size(container_width, container_height, img_width, img_height) ==
    LET container_aspect_ratio == RatDiv(container_width, container_height)
        img_aspect_ratio == RatDiv(img_width, img_height)
    IN IF RatLt(container_aspect_ratio, img_aspect_ratio)
       THEN LET width == container_width
                height == RatDiv(container_width, img_aspect_ratio)
            IN <<RatMax(width, One), RatMax(height, One)>>
       ELSE LET height == container_height
                width == RatMul(container_height, img_aspect_ratio)
            IN <<RatMax(width, One), RatMax(height, One)>>

\* a call of calculate_thumbnail_layout (layout.rs build_grid)
CalculateThumbnailLayout ==
    /\ call.fn = "calculate_thumbnail_layout"
    /\ ret = <<>>
    /\ ret' = <<calculate_thumbnail_layout(call.available_width, call.min_thumbnail_width,
                                           call.thumbnail_gap, call.max_columns_count)>>
    /\ UNCHANGED <<call, decodeVars, videoVars, session, batchVars, imageVars,
                   previewVars>>

\* a call of calculate_contain_size (load_image_ffmpeg, the preview widgets)
CalculateContainSize ==
    /\ call.fn = "calculate_contain_size"
    /\ ret = <<>>
    /\ ret' = calculate_contain_size(call.container_width, call.container_height,
                                     call.img_width, call.img_height)
    /\ UNCHANGED <<call, decodeVars, videoVars, session, batchVars, imageVars,
                   previewVars>>

\* the arguments are chosen and the function has not returned yet
UtilsInit ==
    /\ DecodeIdle
    /\ VideoIdle
    /\ BatchIdle
    /\ ImageIdle
    /\ PreviewIdle
    /\ call \in LayoutCalls \cup ContainCalls
    /\ ret = <<>>

UtilsNext == CalculateThumbnailLayout \/ CalculateContainSize

UtilsSpec == UtilsInit /\ [][UtilsNext]_vars

-----------------------------------------------------------------------------
(* The decode stages called one at a time *)

\* a container decoder of image_entry.rs and what it finds in the file
StageCalls ==
    { [fn |-> "load_dicom_image", d |-> d] : d \in CountOutcomes(MaxFrames) }
    \cup { [fn |-> "load_jbig_image", j |-> j] : j \in CountOutcomes(MaxImages) }
    \cup { [fn |-> "load_image_ffmpeg", ff |-> ff, is_thumbnail |-> th] :
             ff \in FfmpegOutcomes, th \in BOOLEAN }

\* a call of ImageEntry::load_dicom_image
LoadDicomImage ==
    /\ call.fn = "load_dicom_image"
    /\ ret = <<>>
    /\ ret' = <<load_dicom_image(call.d)>>
    /\ UNCHANGED <<call, decodeVars, videoVars, session, batchVars, imageVars,
                   previewVars>>

\* a call of ImageEntry::load_jbig_image
LoadJbigImage ==
    /\ call.fn = "load_jbig_image"
    /\ ret = <<>>
    /\ ret' = <<load_jbig_image(call.j)>>
    /\ UNCHANGED <<call, decodeVars, videoVars, session, batchVars, imageVars,
                   previewVars>>

\* a call of ImageEntry::load_image_ffmpeg
LoadImageFfmpeg ==
    /\ call.fn = "load_image_ffmpeg"
    /\ ret = <<>>
    /\ ret' = <<load_image_ffmpeg(call.ff, call.is_thumbnail)>>
    /\ UNCHANGED <<call, decodeVars, videoVars, session, batchVars, imageVars,
                   previewVars>>

\* the stage and the file's content are chosen, the stage has not returned
StageInit ==
    /\ DecodeIdle
    /\ VideoIdle
    /\ BatchIdle
    /\ ImageIdle
    /\ PreviewIdle
    /\ call \in StageCalls
    /\ ret = <<>>

StageNext == LoadDicomImage \/ LoadJbigImage \/ LoadImageFfmpeg

StageSpec == StageInit /\ [][StageNext]_vars

-----------------------------------------------------------------------------
(* Properties of the decode cascade *)

\* the magic signatures of the interface table, read off the file content
HasDicomMagic(f) == f.bytes.len >= 132 /\ f.bytes.at128 = <<68, 73, 67, 77>>
HasRpgmvMagic(f) == f.bytes.len >= 5 /\ f.bytes.head = <<82, 80, 71, 77, 86>>
HasJpegLsMagic(f) == f.bytes.len >= 4 /\ SubSeq(f.bytes.head, 1, 4) = <<255, 216, 255, 247>>

StagesOf(t) == [i \in 1..Len(t) |-> t[i].stage]
StageRan(s) == \E i \in 1..Len(trace) : trace[i].stage = s

\* C1: load_image attempts the native decoder first; the sniffer and every
\* specialised decoder run only after the native decode failed, so a natively
\* decodable file with the DICOM magic is returned by the native stage and the
\* DICOM decoder is not invoked.
C1_NativeFirst ==
    op = "load_image" =>
        /\ Len(trace) >= 1
        /\ trace[1].stage = "native"
        /\ \A i \in 2..Len(trace) : trace[i].stage # "native" /\ ~trace[1].ok
        /\ trace[1].ok => (IsOk(result) /\ ~StageRan("sniff") /\ ~StageRan("dicom"))

C1_Witness ==
    /\ op = "load_image"
    /\ HasDicomMagic(file) /\ file.readable /\ file.bytes.len >= HeaderLen
    /\ trace = <<[stage |-> "native", ok |-> TRUE]>>
    /\ IsOk(result)

\* C2: when the native decode fails and the header matches none of the three
\* signatures, load_image attempts bilevel-document decode, then the sensor-raw
\* pipeline, then video-frame extraction, each only if the previous one failed,
\* and reports failure only after video-frame extraction was attempted.
C2_UnknownCascade ==
    ( /\ op = "load_image"
      /\ Len(trace) >= 2 /\ ~trace[1].ok /\ trace[2].stage = "sniff" /\ trace[2].ok
      /\ ~HasDicomMagic(file) /\ ~HasRpgmvMagic(file) /\ ~HasJpegLsMagic(file) )
    => LET rest == SubSeq(trace, 3, Len(trace))
           order == <<"jbig", "raw", "ffmpeg">>
       IN /\ Len(rest) \in 1..3
          /\ StagesOf(rest) = SubSeq(order, 1, Len(rest))
          /\ \A i \in 1..(Len(rest) - 1) : ~rest[i].ok
          /\ ~IsOk(result) => Len(rest) = 3

\* the priority table of the format sniffer
TableTag(f) ==
    IF HasDicomMagic(f) THEN "Dicom"
    ELSE IF HasRpgmvMagic(f) THEN "Rpgmv"
    ELSE IF HasJpegLsMagic(f) THEN "JpegLs"
    ELSE "Unknown"

\* C3: for every 256-byte header the sniffer returns the tag of the priority
\* table: Dicom, else LegacyEngineImage, else JpegLossless, else Unknown.
C3_PriorityTable ==
    sniffed \notin {"NotRun", "IoError"} => sniffed = TableTag(file)

\* C4: when the sniffer cannot read its 256-byte window, every caller surfaces
\* the failure; none substitutes a default tag and runs a specialised decoder.
C4_SniffFailureSurfaces ==
    sniffed = "IoError" =>
        /\ trace[Len(trace)].stage = "sniff"
        /\ result \in {Err("io"), NoImage}

\* C5: every Animated value any decode path produces has at least 2 frames.
C5_AnimatedAtLeastTwo ==
    result.kind = "Animated" => Len(result.frames) >= 2

\* C6: every frame stored in an Animated result carries a strictly positive
\* delay (a zero encoded delay is stored as the 8333/100 ms default).
C6_PositiveDelays ==
    result.kind = "Animated" =>
        \A i \in 1..Len(result.frames) :
            result.frames[i][1] > 0 /\ result.frames[i][2] > 0

\* C14: every thumbnail load_thumbnail returns is a single Still, never an
\* Animated; for a video file with several decodable packets it is the first
\* decodable frame only.
C14_ThumbnailSingleStill ==
    (op = "load_thumbnail" /\ result.kind \in {"Still", "Animated"}) =>
        result = Still

HasMagic(f) == HasDicomMagic(f) \/ HasRpgmvMagic(f) \/ HasJpegLsMagic(f)

\* C16: a file with no extension passes filter_media_files and is resolved by
\* its content: when its bytes carry one of the image signatures it is
\* classified as an image and decoded by the image stages, not by video-frame
\* extraction.
C16_ExtensionlessSniffed ==
    ( /\ op = "load_thumbnail"
      /\ is_no_extension(file)
      /\ file.readable /\ file.bytes.len >= HeaderLen /\ HasMagic(file) )
    => /\ filter_media_files(<<file>>) = <<file>>
       /\ media_type(file) # "Video"
       /\ StageRan("sniff")
       /\ ~StageRan("ffmpeg")

\* every task of the batch has ended
BatchFinished == \A i \in 1..Len(batch_files) : tasks[i].pc \in {"done", "panicked"}

\* C15: with show_failed_files enabled, every task of a thumbnail batch
\* completes under every interleaving: no task is cut short, and when all have
\* ended the shared collection holds exactly one entry per input file, the
\* entry of a file whose thumbnail failed having failed = true and the
\* placeholder texture.
C15_BatchCompletes ==
    app_settings.show_failed_files =>
        /\ \A i \in 1..Len(batch_files) : tasks[i].pc # "panicked"
        /\ BatchFinished =>
            /\ Len(entries) = Len(batch_files)
            /\ \A i \in 1..Len(batch_files) :
                    Cardinality({ k \in 1..Len(entries) : entries[k].path = i }) = 1
            /\ \A k \in 1..Len(entries) :
                    /\ entries[k].failed = (tasks[entries[k].path].texture = "None")
                    /\ entries[k].failed => entries[k].thumbnail = "default_texture"

-----------------------------------------------------------------------------
(* Properties of the video session *)

\* C7: in every reachable state of a video session, after any sequence of
\* get_current_frame, seek, seek_relative, play, pause and toggle_playback
\* calls, 0 <= current_time <= video_duration.
C7_PositionWithinDuration ==
    0 <= current_time /\ current_time <= video_duration

\* a frame was decoded from a packet stamped after the end of the stream
C7_Witness ==
    /\ last.op = "get_current_frame"
    /\ video_duration > 0
    /\ video_pos > 1
    /\ PtsToMs(PacketPts(video_pos - 1)) > video_duration
    /\ frames_buffer # <<>>
    /\ frames_buffer[Len(frames_buffer)] = video_pos - 1
    /\ current_time = video_duration

\* C8: seek_relative(delta) with current_time + delta < 0 leaves the session at
\* position 0.
C8_SeekRelativeClampsToZero ==
    [][ (last'.op = "seek_relative" /\ current_time + last'.arg < 0)
            => current_time' = 0 ]_vars

\* C9: seek is idempotent on position: after seek(t); seek(t), as after a
\* single seek(t), current_time is min(t, video_duration) and the look-ahead
\* buffer is empty, whatever the demuxer seek reported.
C9_SeekIdempotent ==
    last.op = "seek" =>
        /\ current_time = Min(last.arg, video_duration)
        /\ frames_buffer = <<>>

\* seek(t) was called twice in a row with t beyond the duration
C9_Witness ==
    /\ last.op = "seek" /\ last.rep
    /\ last.arg > video_duration /\ video_duration > 0
    /\ current_time = video_duration

\* C10: the look-ahead buffer never holds more than 5 frames, between calls
\* or while get_current_frame refills it.
C10_BufferAtMostFive ==
    Len(frames_buffer) <= 5 /\ buffer_peak <= 5

\* a refill filled the buffer to its capacity
C10_Witness ==
    last.op = "get_current_frame" /\ is_playing /\ buffer_peak = 5

-----------------------------------------------------------------------------
(* Properties of presentation and construction *)

\* the texture a get_current_frame call returned: it is what the call caches
Presented == cached_frame

\* the frames of s are in decode order
InDecodeOrder(s) == \A i \in 1..(Len(s) - 1) : s[i] < s[i + 1]

\* s is the front part of t
IsPrefix(s, t) == Len(s) <= Len(t) /\ SubSeq(t, 1, Len(s)) = s

\* the buffer as a get_current_frame step refilled it, before it took a frame
\* out: the frame it presents, if it took one, followed by what it left
Refilled ==
    IF Len(frames_buffer') < buffer_peak' THEN <<Presented'>> \o frames_buffer'
    ELSE frames_buffer'

\* C11: between two seeks the frames get_current_frame presents appear in
\* decode order.  The look-ahead buffer is first-in first-out: the frames that
\* waited keep their places, the frames a call decodes join behind them in
\* decode order, at most one frame leaves per call, from the front, and it is
\* the one presented; a call presents that frame, the frame presented before,
\* or nothing, so no frame is presented after a later one and none is skipped.
C11_FifoOrder ==
    [][ last'.op = "get_current_frame" =>
          /\ Len(Refilled) = buffer_peak'
          /\ InDecodeOrder(Refilled)
          /\ IsPrefix(frames_buffer, Refilled)
          /\ \A i \in (Len(frames_buffer) + 1)..Len(Refilled) :
                video_pos <= Refilled[i] /\ Refilled[i] < video_pos'
          /\ Presented' \in {NoFrame, cached_frame}
                \/ (Refilled # <<>> /\ Presented' = Head(Refilled))
      ]_vars

\* the first two frames were presented one after the other and the third waits
C11_Witness ==
    /\ last.op = "get_current_frame" /\ last.rep
    /\ is_playing
    /\ Presented = 2
    /\ frames_buffer # <<>> /\ Head(frames_buffer) = 3

\* C12: right after VideoEntry::new returned Some, the session is paused and
\* its look-ahead buffer holds one pre-decoded frame.
C12_InitialFrame ==
    (session = "open" /\ last.op = "new") =>
        (~is_playing /\ Len(frames_buffer) = 1)

\* a get_current_frame step that decodes at least one frame
DecodesAFrame ==
    /\ video_pos' > video_pos
    /\ \/ frames_buffer' # <<>> /\ frames_buffer'[Len(frames_buffer')] >= video_pos
       \/ frames_buffer' = <<>> /\ Presented' >= video_pos

\* C13: on a playing session, of two successive ticks a frame period apart
\* that each present a frame, the second one decoding at least one more,
\* the second observes a current_time strictly above the first's and at most
\* video_duration; three such ticks so observe three distinct, strictly
\* increasing values.
C13_ThreeTicksIncreasing ==
    [][ ( /\ last.op = "get_current_frame" /\ last'.op = "get_current_frame"
          /\ is_playing
          /\ AdvanceDue(last.arg) /\ AdvanceDue(last'.arg)
          /\ Presented # NoFrame /\ Presented' # NoFrame
          /\ ~panicked'
          /\ DecodesAFrame )
        => (current_time < current_time' /\ current_time' <= video_duration)
      ]_vars

\* C17: construction that fails returns no session as a value; no panic is
\* reachable from VideoEntry::new.
C17_NewAbortsCleanly ==
    last.op = "new" => (~panicked /\ session \in {"open", "failed"})

\* C20: while playing, a tick whose elapsed time is at least the frame period
\* refills the buffer up to 5 frames, pops exactly one front frame for
\* presentation and sets last_frame_time to now; any other tick re-presents
\* the cached frame, decodes nothing and leaves the buffer, current_time and
\* last_frame_time as they are.
C20_AdvanceIffElapsed ==
    [][ (last'.op = "get_current_frame" /\ is_playing) =>
          IF AdvanceDue(last'.arg)
          THEN /\ since_last_frame' = 0
               /\ buffer_peak' <= BufferSize
               /\ Len(frames_buffer') = buffer_peak' - 1
               /\ Presented' # NoFrame
               /\ IsPrefix(frames_buffer, <<Presented'>> \o frames_buffer')
          ELSE /\ Presented' = cached_frame
               /\ frames_buffer' = frames_buffer
               /\ video_pos' = video_pos
               /\ current_time' = current_time
               /\ since_last_frame' = last'.arg
      ]_vars

-----------------------------------------------------------------------------
(* Properties of the layout functions *)

\* the returned layout of a finished calculate_thumbnail_layout call
LayoutReturned == call.fn = "calculate_thumbnail_layout" /\ ret # <<>>

\* (available_width - (c-1)*gap)/c >= min_width, without the division
CellFits(c) ==
    call.available_width - (c - 1) * call.thumbnail_gap >= call.min_thumbnail_width * c

\* the cell width (available_width - (c-1)*gap)/c
CellWidth(c) == Rat(call.available_width - (c - 1) * call.thumbnail_gap, c)

\* c is the largest column count up to max_columns whose cells fit, and the
\* returned width is the width of its cells
LargestFitting(c, width) ==
    /\ c <= call.max_columns_count
    /\ CellFits(c)
    /\ \A c2 \in (c + 1)..call.max_columns_count : ~CellFits(c2)
    /\ width = CellWidth(c)

\* C18 as stated: for all inputs the returned column count is at most
\* max_columns, its cells are at least min_width wide, no larger count up to
\* max_columns has that, and the returned width is the width of its cells.
C18_LayoutAlwaysFits ==
    LayoutReturned => LargestFitting(ret[1].columns, ret[1].width)

\* C18 amended: when some column count in 1..max_columns has cells of at least
\* min_width, the returned count is the largest such and the returned width is
\* the width of its cells; when none has, the result is one column of the full
\* available width.
C18_LayoutLargestOrFallback ==
    LayoutReturned =>
        IF \E c \in 1..call.max_columns_count : CellFits(c)
        THEN LargestFitting(ret[1].columns, ret[1].width)
        ELSE ret[1] = [columns |-> 1, width |-> Rat(call.available_width, 1)]

\* a layout of three columns was returned although four were allowed
C18_Witness ==
    /\ LayoutReturned
    /\ call.max_columns_count = 4
    /\ ret[1].columns = 3
    /\ CellFits(1) /\ CellFits(2) /\ ~CellFits(4)

\* the returned size of a finished calculate_contain_size call
ContainReturned == call.fn = "calculate_contain_size" /\ ret # <<>>

\* the content scaled by min(container_width/img_width, container_height/
\* img_height): the largest size of the content's shape inside the container
FittedSize ==
    LET sw == RatDiv(call.container_width, call.img_width)
        sh == RatDiv(call.container_height, call.img_height)
        scale == IF RatLe(sw, sh) THEN sw ELSE sh
    IN <<RatMul(scale, call.img_width), RatMul(scale, call.img_height)>>

\* (w, h) lies inside the container and has the shape of the content
FitsWithAspect(w, h) ==
    /\ RatLe(w, call.container_width)
    /\ RatLe(h, call.container_height)
    /\ RatDiv(w, h) = RatDiv(call.img_width, call.img_height)

-----------------------------------------------------------------------------
(* Properties of the paused and the starved session *)

\* the presentation time of the frame decoded from packet f, as
\* decode_next_frame computes it
FrameTime(f) == ClampToDuration(PtsToMs(PacketPts(f)))

\* C21: while paused, a get_current_frame call that returns normally decodes
\* nothing when the buffer already holds a frame, leaves the buffer non-empty
\* unless the one decode it tried gave no frame, presents the frame at the
\* front of the buffer, and leaves the audio sink paused, whatever calls of
\* play, pause and seek came before.
C21_PausedShowsFront ==
    [][ (last'.op = "get_current_frame" /\ ~is_playing /\ ~panicked') =>
          /\ frames_buffer # <<>> =>
                (frames_buffer' = frames_buffer /\ video_pos' = video_pos)
          /\ frames_buffer' = <<>> =>
                (video_pos' = video_pos + 1 \/ video_pos > NumPackets)
          /\ frames_buffer' # <<>> => Presented' = Head(frames_buffer')
          /\ audio_paused'
      ]_vars

\* C22: while playing, a due get_current_frame call that finds the buffer
\* empty and decodes no frame presents the cached frame; and once a frame has
\* been presented, no get_current_frame call that returns normally presents
\* nothing or clears the cached frame.
C22_StarvedKeepsCached ==
    [][ (last'.op = "get_current_frame" /\ ~panicked') =>
          /\ (is_playing /\ AdvanceDue(last'.arg) /\ frames_buffer = <<>>
                 /\ buffer_peak' = 0) => Presented' = cached_frame
          /\ cached_frame # NoFrame => Presented' # NoFrame
      ]_vars

\* C26: once the decoder has been sent end-of-stream, a get_current_frame
\* call does not send it again (the second send_eof().unwrap() is the only
\* way a call fails to return) and the decoder stays at end-of-stream.
C26_EofSentOnce ==
    [][ (last'.op = "get_current_frame" /\ draining) => (~panicked' /\ draining')
      ]_vars

\* C27: after a get_current_frame call that presents a frame, current_time is
\* the presentation time, in ms and clamped to the duration, of that frame.
C27_TimeOfPresentedFrame ==
    (last.op = "get_current_frame" /\ ~panicked /\ Presented # NoFrame) =>
        current_time = FrameTime(Presented)

-----------------------------------------------------------------------------
(* Properties of the decode stages *)

\* the timestamps of the frames a finished load_image_ffmpeg call extracted
ExtractedPts == FfmpegCollect(call.ff.packets, <<>>, <<>>, call.is_thumbnail)

FfmpegReturned == call.fn = "load_image_ffmpeg" /\ ret # <<>> /\ call.ff.ok

\* C28: when the extraction yields n >= 2 frames with timestamps p, the
\* result is an Animated of n frames, frame i < n carries the delay p[i+1] -
\* p[i] converted to ms by the time base, and the last frame repeats the delay
\* of the frame before it.
C28_DelaysInDecodeOrder ==
    (FfmpegReturned /\ Len(ExtractedPts) >= 2) =>
        LET p == ExtractedPts
            n == Len(p)
            frames == ret[1].frames
        IN /\ ret[1].kind = "Animated"
           /\ Len(frames) = n
           /\ \A i \in 1..(n - 1) : frames[i] = Delay(PtsDeltaToMs(p[i + 1] - p[i]), 1)
           /\ frames[n] = frames[n - 1]

\* the stage opened its container and found no frame / image in it
OpenedEmpty ==
    /\ ret # <<>>
    /\ \/ call.fn = "load_dicom_image" /\ call.d.ok /\ call.d.n = 0
       \/ call.fn = "load_jbig_image" /\ call.j.ok /\ call.j.n = 0
       \/ FfmpegReturned /\ ExtractedPts = <<>>

\* C29: a stage that opens its container and obtains no frame or image from
\* it returns a decode failure: it neither panics nor returns a visual
\* without frames.
C29_EmptyContainerFails ==
    OpenedEmpty => ret[1].kind = "Err"

-----------------------------------------------------------------------------
(* Properties of the image preview *)

\* the last call on the image entry was a tick of an Animated
AnimatedTick == image_call'.op = "get_current_frame" /\ image.kind = "Animated"

\* C30: for an Animated entry every get_current_frame call leaves the frame
\* index in [0, frame_count); when the elapsed time has reached the current
\* frame's delay (83.33 ms for a zero delay) it advances the index by exactly
\* one modulo frame_count and restarts the clock, however long the elapsed
\* time; otherwise it changes neither the index nor the clock's start.
C30_IndexInRangeOneStep ==
    [][ AnimatedTick =>
          LET n == Len(image.frames)
              due == DelayElapsed(image_call'.elapsed,
                                  frame_delay(image.frames, current_frame_index))
          IN /\ current_frame_index' \in 0..(n - 1)
             /\ image_call'.returned = "Some"
             /\ IF due
                THEN /\ current_frame_index' = (current_frame_index + 1) % n
                     /\ last_frame_age' = 0
                ELSE /\ current_frame_index' = current_frame_index
                     /\ last_frame_age' = image_call'.elapsed
      ]_vars

-----------------------------------------------------------------------------
(* Properties of the preview *)

\* C24: at most one video session holds an audio output at any time, and
\* whenever VideoEntry::new opens the audio device for a new session no
\* earlier session is alive any more, for every sequence of open, navigate
\* and close actions.
C24_OneAudioOwner ==
    [][ /\ Cardinality(audio_owners') <= 1
        /\ sessions_opened' > sessions_opened => audio_owners = {}
      ]_vars

\* a second video session is playing after the first one was closed
C24_Witness ==
    /\ sessions_opened = 2
    /\ current_entry # NoCurrentEntry
    /\ current_entry.video = 2
    /\ audio_owners = {2}

-----------------------------------------------------------------------------
(* Properties of the shared collection *)

\* C23: a task holds the mutex of the collection for the single push only:
\* while it holds it, the one step it takes is the push that releases it, on
\* the success and on the failure path (no decode, no other lock).
C23_LockOnlyForPush ==
    [][ \A i \in 1..Len(tasks) :
            entries_lock = i =>
                \/ tasks'[i] = tasks[i]
                \/ /\ entries_lock' = 0
                   /\ tasks'[i].pc = "done"
                   /\ Len(entries') = Len(entries) + 1
      ]_vars

\* C25: the collection holds entries of the newest selection only: after a
\* new selection has cleared it, no task of an earlier batch adds an entry.
C25_OnlyNewestSelection ==
    \A k \in 1..Len(entries) : entries[k].path >= newest

====
